---- MODULE Spec2Model ----
(***************************************************************************)
(* ConvertController (packages/core/src/controllers/ConvertController.ts)  *)
(* as a state machine.  The controller is a valtio proxy `state` plus      *)
(* synchronous setters and async actions.  JavaScript is single threaded: *)
(* an async action runs synchronously up to its next network await, so    *)
(* every action below is either a whole synchronous call (including the   *)
(* synchronous prefix of every async function it calls) or the            *)
(* continuation that runs when one network reply arrives, up to the next  *)
(* network await.  Async invocations in flight are the entries of `runs`. *)
(***************************************************************************)
EXTENDS Integers, Sequences, FiniteSets, TLC

(***************************************************************************)
(* Bounds of the model.                                                    *)
(***************************************************************************)
\* price lookups (setTokenPriceToMap, checkToTokenValues,
\* checkSourceTokenValues, getNetworkTokenPrice) that reach the network in
\* one behaviour
MaxPriceRuns == 2

\* initializeState calls that reach the network in one behaviour
MaxInitRuns == 2

\* convertTokens / makeChecks calls that reach the network in one behaviour
MaxCheckRuns == 2

\* sendTransactionForApproval / sendTransactionForConvert calls that reach
\* the network in one behaviour
MaxSendRuns == 2

(***************************************************************************)
(* JavaScript numbers: NaN, +/-Infinity, or a finite value kept as a       *)
(* normalised fraction n/d (d > 0).                                        *)
(***************************************************************************)
NaN == [k |-> "nan", n |-> 0, d |-> 1]

Infinity(sign) == [k |-> "inf", n |-> sign, d |-> 1]

Abs(x) == IF x < 0 THEN -x ELSE x

Sign(x) == IF x < 0 THEN -1 ELSE IF x > 0 THEN 1 ELSE 0

RECURSIVE Gcd(_, _)
Gcd(a, b) == IF b = 0 THEN a ELSE Gcd(b, a % b)

Fin(n, d) ==
  LET g == Gcd(Abs(n), Abs(d))
      s == IF d < 0 THEN -1 ELSE 1
  IN  [k |-> "fin", n |-> (s * n) \div g, d |-> (s * d) \div g]

Num(i) == Fin(i, 1)

IsNaN(x) == x.k = "nan"

IsFinite(x) == x.k = "fin"

IsZero(x) == x.k = "fin" /\ x.n = 0

\* truthiness of a number: `!x` is true exactly for 0 and NaN
TruthyNum(x) == ~IsNaN(x) /\ ~IsZero(x)

NumSign(x) == IF x.k = "nan" THEN 0 ELSE Sign(x.n)

\* x * y
Mul(x, y) ==
  IF IsNaN(x) \/ IsNaN(y) THEN NaN
  ELSE IF x.k = "inf" \/ y.k = "inf"
       THEN IF NumSign(x) * NumSign(y) = 0 THEN NaN
            ELSE Infinity(NumSign(x) * NumSign(y))
       ELSE Fin(x.n * y.n, x.d * y.d)

\* x / y  (the model has no negative zero: x / 0 has the sign of x)
Div(x, y) ==
  IF IsNaN(x) \/ IsNaN(y) THEN NaN
  ELSE IF x.k = "inf"
       THEN IF y.k = "inf" THEN NaN
            ELSE Infinity(IF NumSign(y) < 0 THEN -x.n ELSE x.n)
       ELSE IF y.k = "inf" THEN Num(0)
            ELSE IF y.n = 0
                 THEN IF x.n = 0 THEN NaN ELSE Infinity(Sign(x.n))
                 ELSE Fin(x.n * y.d, x.d * y.n)

\* x + y
Add(x, y) ==
  IF IsNaN(x) \/ IsNaN(y) THEN NaN
  ELSE IF x.k = "inf"
       THEN IF y.k = "inf" /\ y.n # x.n THEN NaN ELSE x
       ELSE IF y.k = "inf" THEN y
            ELSE Fin(x.n * y.d + y.n * x.d, x.d * y.d)

\* x - y
Sub(x, y) == Add(x, Mul(Num(-1), y))

\* x < y (false when either side is NaN)
Less(x, y) ==
  IF IsNaN(x) \/ IsNaN(y) THEN FALSE
  ELSE IF x.k = "inf" THEN x.n < 0 /\ ~(y.k = "inf" /\ y.n < 0)
       ELSE IF y.k = "inf" THEN y.n > 0
            ELSE x.n * y.d < y.n * x.d

\* Math.round: the nearest integer, halves rounding up
Round(x) == IF IsFinite(x) THEN Num((2 * x.n + x.d) \div (2 * x.d)) ELSE x

\* `undefined` in a field of type `number | undefined`
undefinedNumber == [k |-> "undefined", n |-> 0, d |-> 1]

(***************************************************************************)
(* JavaScript values of type `string | undefined` that hold amounts and    *)
(* prices: undefined, the empty string '', or the decimal text of a        *)
(* number ('0', '1', '0.5', 'NaN', 'Infinity').                            *)
(***************************************************************************)
Undefined == [k |-> "undefined", v |-> NaN]

Empty == [k |-> "empty", v |-> NaN]

\* Number.prototype.toString / a numeric literal in quotes
Str(x) == [k |-> "text", v |-> x]

\* truthiness of a string: only undefined and '' are falsy ('0' is truthy)
Truthy(s) == s.k = "text"

\* parseFloat: '' and undefined give NaN
parseFloat(s) == IF s.k = "text" THEN s.v ELSE NaN

\* `s` where the source has `s || '0'`: the default is forgotten
OrZeroForgotten(s) == s

\* `s || '0'`
OrZero(s) == IF Truthy(s) THEN s ELSE Str(Num(0))

\* a string that denotes a finite number
IsNumericString(s) == s.k = "text" /\ IsFinite(s.v)

(***************************************************************************)
(* Values of the other types.  The JavaScript value `undefined` of a       *)
(* message, an address or an opaque object is the string UNDEFINED.        *)
(***************************************************************************)
UNDEFINED == "<undefined>"

CURRENT_CHAIN_ADDRESS == "0xeeeeeeeeeeeeeeeeeeeeeeeeeeeeeeeeeeeeeeee"

DEFAULT_SLIPPAGE_TOLERANCE == Str(Fin(1, 2))

\* TokenInfo: the fields the controller reads
undefinedToken == [address |-> UNDEFINED, decimals |-> 0]

ETH == [address |-> CURRENT_CHAIN_ADDRESS, decimals |-> 18]

USDC == [address |-> "0xa0b86991c6218b36c1d19d4a2e9eb0ce3606eb48", decimals |-> 6]

TokenInputs == {ETH, USDC}

\* a token the token list gave no decimals for
USDCNoDecimals == [USDC EXCEPT !.decimals = 0]

Addresses == {t.address : t \in TokenInputs}

\* TransactionParams: `data` is the calldata the service built for the
\* request of run `run`; `to`, `value` follow it and are not kept apart
undefinedTx == [kind |-> "undefined", run |-> 0, gas |-> 0, gasPrice |-> 0]

TransactionParams(kind, r, gas, gasPrice) ==
  [kind |-> kind, run |-> r, gas |-> gas, gasPrice |-> gasPrice]

\* a transaction the caller built itself and hands to sendTransactionFor...
callerTx == TransactionParams("caller", 0, 1, 1)

(***************************************************************************)
(* Replies of the external collaborators (ConvertApiController,            *)
(* ConnectionController), drawn by the reply actions.                      *)
(***************************************************************************)
\* prices[address] of getTokenPriceWithAddresses: missing, or a price
PriceReplies == {Undefined, Empty, Str(Num(2))}

\* getMyTokensWithBalance: undefined, or balances with prices
NoBalances == [a \in Addresses |-> [balance |-> Undefined, price |-> Undefined]]

BalanceReplies ==
  { [defined |-> FALSE, tokens |-> NoBalances],
    [defined |-> TRUE,
     tokens |-> [NoBalances EXCEPT ![USDC.address] =
                   [balance |-> Str(Num(1)), price |-> Str(Num(2))]]] }

\* getEstimatedGas, and tx.gas / tx.gasPrice of the service's transactions
GasReplies == {2}

GasPriceReplies == {1}

\* what the user types into an amount field
AmountInputs == {Empty, Str(Num(0)), Str(Num(1))}

\* error.shortMessage of a rejected sendTransaction
ShortMessages == {UNDEFINED, "User rejected the request."}

(***************************************************************************)
(* The state.                                                              *)
(***************************************************************************)
VARIABLES
  state,    \* the valtio proxy `state` of ConvertController
  address,  \* AccountController.state.address
  runs,     \* async invocations, in the order they were started
  snack,    \* messages passed to SnackController.showError, in order
  view      \* the view RouterController shows

vars == <<state, address, runs, snack, view>>

\* the record passed to proxy(): the fields the modelled actions touch
InitialState ==
  [ initialized |-> FALSE,
    loading |-> FALSE,
    approvalTransaction |-> undefinedTx,
    convertLoading |-> FALSE,
    convertTransaction |-> undefinedTx,
    transactionError |-> UNDEFINED,
    transactionLoading |-> FALSE,
    sourceToken |-> undefinedToken,
    sourceTokenAmount |-> Empty,
    sourceTokenPriceInUSD |-> Num(0),
    toToken |-> undefinedToken,
    toTokenAmount |-> Empty,
    toTokenPriceInUSD |-> Num(0),
    networkPrice |-> Str(Num(0)),
    inputError |-> UNDEFINED,
    slippage |-> DEFAULT_SLIPPAGE_TOLERANCE,
    tokens |-> UNDEFINED,
    myTokensWithBalance |-> [a \in Addresses |-> Undefined],
    tokensPriceMap |-> [a \in Addresses |-> Undefined],
    gasFee |-> 0,
    gasPriceInUSD |-> Num(0),
    priceImpact |-> undefinedNumber,
    maxSlippage |-> undefinedNumber ]

\* the fields two makeChecks runs both write
Shared(s) ==
  [ approvalTransaction |-> s.approvalTransaction,
    convertTransaction |-> s.convertTransaction,
    toTokenAmount |-> s.toTokenAmount,
    gasPriceInUSD |-> s.gasPriceInUSD,
    priceImpact |-> s.priceImpact ]

noWrites == Shared(InitialState)

\* one async invocation: the function, the network call it awaits, its locals
NewRun(op, pc) ==
  [ op |-> op, pc |-> pc,
    addr |-> UNDEFINED,         \* address / toTokenAddress captured at the call
    amount |-> Undefined,       \* amount captured at the call
    balance |-> Undefined,      \* balance read at the call
    toAmount |-> Undefined,     \* getToAmount() result
    tx |-> undefinedTx,         \* transaction in hand (data, or the reply so far)
    hasAllowance |-> FALSE,     \* checkConvertAllowance's reply
    noPrice |-> FALSE,          \* the price reply carried no price
    outcome |-> "",             \* of sendTransaction: "hash" or "caught"
    after |-> {},               \* makeChecks: the makeChecks runs in flight at the call
    written |-> noWrites,       \* makeChecks: the shared fields as it left them
    calls |-> <<pc>>,           \* network calls issued so far
    settled |-> 0 ]             \* how many of them have settled

\* the run awaits nothing more
Finished(r) == r.pc \in {"done", "rejected"}

Init ==
  /\ state = InitialState
  /\ address \in {UNDEFINED, "0xd8da6bf26964af9d7eed9e03e53415d37aa96045"}
  /\ runs = <<>>
  /\ snack = <<>>
  /\ view = "Convert"

(***************************************************************************)
(* The calculations.  bigint amounts of wei are counted in units of 10^15  *)
(* wei, and getToAmount's scale factor is 10^4 instead of 10^10, to stay   *)
(* inside TLC's 32-bit integers; the arithmetic is otherwise the source's. *)
(***************************************************************************)
WeiPerEther == 1000

scaleFactor == 10000

\* the toTokenAmount handed to setToTokenAmountValue: an integer in text
ToAmountInputs == {Str(Num(0)), Str(Num(scaleFactor))}

calculateGasPriceInEther(gas, gasPrice) ==
  Div(Num(gasPrice * gas), Num(WeiPerEther))

calculateGasPriceInUSD(s, gas, gasPrice) ==
  Mul(calculateGasPriceInEther(gas, gasPrice), parseFloat(s.networkPrice))

calculatePriceImpact(s, toTokenAmount, gasPriceInUSD) ==
  LET totalSourceCostUSD == Mul(parseFloat(s.sourceTokenAmount), s.sourceTokenPriceInUSD)
      adjustedTotalSourceCostUSD == Add(totalSourceCostUSD, gasPriceInUSD)
      effectivePriceIncludingGas ==
        Div(adjustedTotalSourceCostUSD, parseFloat(toTokenAmount))
  IN  Mul(Div(Sub(effectivePriceIncludingGas, s.toTokenPriceInUSD),
              s.toTokenPriceInUSD),
          Num(100))

calculateMaxSlippage(s) ==
  Mul(parseFloat(s.sourceTokenAmount), Div(parseFloat(s.slippage), Num(100)))

getToAmount(s) ==
  LET toTokenConvertedAmount ==
        IF TruthyNum(s.sourceTokenPriceInUSD) /\ TruthyNum(s.toTokenPriceInUSD)
        THEN Mul(Div(Num(1), s.toTokenPriceInUSD), s.sourceTokenPriceInUSD)
        ELSE Num(0)
  IN  Str(Round(Mul(toTokenConvertedAmount, Num(scaleFactor))))

\* the first write, state.toTokenAmount = formatUnits(...), is overwritten
\* before the call returns and is not kept
setToTokenAmountValue(s, toTokenAmount, toTokenAddress) ==
  IF toTokenAddress = UNDEFINED \/ ~Truthy(toTokenAmount) THEN s
  ELSE LET toTokenPrice == parseFloat(OrZero(s.tokensPriceMap[toTokenAddress]))
           toTokenAmountValue ==
             Div(Mul(parseFloat(s.sourceTokenAmount), s.sourceTokenPriceInUSD),
                 toTokenPrice)
       IN  [s EXCEPT !.toTokenPriceInUSD = toTokenPrice,
                     !.toTokenAmount = Str(toTokenAmountValue)]

setTransactionDetails(s, gas, gasPrice) ==
  IF s.toToken.address = UNDEFINED THEN s
  ELSE LET toTokenPrice == OrZero(s.tokensPriceMap[s.toToken.address])
           s1 == [s EXCEPT !.toTokenPriceInUSD = parseFloat(toTokenPrice)]
           s2 == [s1 EXCEPT !.gasPriceInUSD = calculateGasPriceInUSD(s1, gas, gasPrice)]
           s3 == [s2 EXCEPT !.priceImpact =
                               calculatePriceImpact(s2, s.toTokenAmount, s2.gasPriceInUSD)]
       IN  [s3 EXCEPT !.maxSlippage = calculateMaxSlippage(s3)]

(***************************************************************************)
(* Synchronous calls.  A call that starts an async function appends its    *)
(* run; w is the pair [state, runs] the call works on.                     *)
(***************************************************************************)
World(s, rs) == [state |-> s, runs |-> rs]

\* the synchronous part of setTokenPriceToMap / checkToTokenValues
startPriceRun(op, addr) ==
  [NewRun(op, "getTokenPriceWithAddresses") EXCEPT !.addr = addr]

setSourceToken(w, sourceToken) ==
  IF sourceToken = undefinedToken THEN w
  ELSE LET s == [w.state EXCEPT !.sourceToken = sourceToken]
       IN  IF ~Truthy(s.tokensPriceMap[sourceToken.address])
           THEN World(s, Append(w.runs,
                                startPriceRun("setTokenPriceToMap", sourceToken.address)))
           ELSE World(s, w.runs)

setToToken(w, toToken) ==
  IF toToken.address = UNDEFINED THEN w
  ELSE LET s == [w.state EXCEPT !.toToken = toToken]
       IN  IF Truthy(s.tokensPriceMap[toToken.address])
           THEN World([s EXCEPT !.toTokenPriceInUSD =
                                   parseFloat(OrZero(s.tokensPriceMap[toToken.address]))],
                      w.runs)
           ELSE World(s, Append(w.runs,
                                startPriceRun("checkToTokenValues", toToken.address)))

switchTokens(w) ==
  LET newSourceToken == w.state.toToken
      newToToken == w.state.sourceToken
      w2 == setToToken(setSourceToken(w, newSourceToken), newToToken)
  IN  World([w2.state EXCEPT !.sourceTokenAmount = Empty, !.toTokenAmount = Empty],
            w2.runs)

resetState(s) ==
  [s EXCEPT !.sourceToken = undefinedToken,
            !.toToken = undefinedToken,
            !.sourceTokenAmount = Str(Num(0)),
            !.toTokenAmount = Str(Num(0)),
            !.sourceTokenPriceInUSD = Num(0),
            !.toTokenPriceInUSD = Num(0),
            !.gasPriceInUSD = Num(0)]

\* checkSourceTokenValues after `await this.getAddressPrice(address)`
checkSourceTokenValuesWithPrice(s, balance, amount, price) ==
  LET balancePriceInUSD == Mul(parseFloat(balance), price)
      amountPriceInUSD == Mul(parseFloat(amount), price)
      insufficientBalance == Less(balancePriceInUSD, amountPriceInUSD)
      s1 == [s EXCEPT !.sourceTokenPriceInUSD = price,
                      !.inputError = IF insufficientBalance
                                     THEN "Insufficient balance" ELSE UNDEFINED]
  IN  IF insufficientBalance
      THEN [s1 EXCEPT !.toTokenAmount = Str(Num(0)), !.toTokenPriceInUSD = Num(0)]
      ELSE s1

\* checkSourceTokenValues up to its first network await: with a price in the
\* map getAddressPrice awaits nothing and the function runs to its end
checkSourceTokenValues(w, addr, amount) ==
  LET balance == OrZero(w.state.myTokensWithBalance[addr])
      existPrice == w.state.tokensPriceMap[addr]
  IN  IF Truthy(existPrice)
      THEN World(checkSourceTokenValuesWithPrice(w.state, balance, amount,
                                                 parseFloat(existPrice)),
                 w.runs)
      ELSE World(w.state,
                 Append(w.runs,
                        [startPriceRun("checkSourceTokenValues", addr)
                           EXCEPT !.amount = amount, !.balance = balance]))

PriceOps ==
  {"setTokenPriceToMap", "checkToTokenValues", "checkSourceTokenValues",
   "getNetworkTokenPrice"}

CheckOps == {"convertTokens", "makeChecks"}

SendOps == {"sendTransactionForApproval", "sendTransactionForConvert"}

\* how many of the runs rs are calls of the functions ops
Started(rs, ops) == Cardinality({i \in 1..Len(rs) : rs[i].op \in ops})

\* the call fits the bounds on runs
Fits(w) ==
  /\ Started(w.runs, PriceOps) <= MaxPriceRuns
  /\ Started(w.runs, {"initializeState"}) <= MaxInitRuns
  /\ Started(w.runs, CheckOps) <= MaxCheckRuns
  /\ Started(w.runs, SendOps) <= MaxSendRuns

Commit(w) == Fits(w) /\ state' = w.state /\ runs' = w.runs

Here == World(state, runs)

SetSourceToken(sourceToken) ==
  /\ Commit(setSourceToken(Here, sourceToken))
  /\ UNCHANGED <<address, snack, view>>

SetToToken(toToken) ==
  /\ Commit(setToToken(Here, toToken))
  /\ UNCHANGED <<address, snack, view>>

\* throws before any write when there is no account address, and after the
\* write of the amount when no source token is selected
SetSourceTokenAmount(amount) ==
  /\ IF address = UNDEFINED THEN UNCHANGED <<state, runs>>
     ELSE LET s == [state EXCEPT !.sourceTokenAmount = amount]
          IN  IF state.sourceToken.address = UNDEFINED
              THEN state' = s /\ UNCHANGED runs
              ELSE Commit(checkSourceTokenValues(World(s, runs),
                                                 state.sourceToken.address, amount))
  /\ UNCHANGED <<address, snack, view>>

SetToTokenAmount(amount) ==
  /\ state' = [state EXCEPT !.toTokenAmount = amount]
  /\ UNCHANGED <<address, runs, snack, view>>

SwitchTokens ==
  /\ Commit(switchTokens(Here))
  /\ UNCHANGED <<address, snack, view>>

ResetState ==
  /\ state' = resetState(state)
  /\ UNCHANGED <<address, runs, snack, view>>

ClearError ==
  /\ state' = [state EXCEPT !.transactionError = UNDEFINED]
  /\ UNCHANGED <<address, runs, snack, view>>

\* setToTokenAmountValue called by the view (toTokenDecimals only feeds the
\* overwritten first write)
SetToTokenAmountValue(toTokenAmount, toTokenAddress) ==
  /\ state' = setToTokenAmountValue(state, toTokenAmount, toTokenAddress)
  /\ UNCHANGED <<address, runs, snack, view>>

\* setTransactionDetails called by the view; getParams throws when there is
\* no account address
SetTransactionDetails(gas, gasPrice) ==
  /\ state' = IF address = UNDEFINED THEN state
              ELSE setTransactionDetails(state, gas, gasPrice)
  /\ UNCHANGED <<address, runs, snack, view>>

(***************************************************************************)
(* Async actions: the call, then one action per network reply.             *)
(***************************************************************************)
RunIds == 1..Len(runs)

\* run i goes on to await `pc`
Await(r, pc) ==
  [r EXCEPT !.pc = pc, !.calls = Append(r.calls, pc), !.settled = r.settled + 1]

\* run i ends, "done" (returned) or "rejected" (threw): its locals are gone
End(r, pc) ==
  [r EXCEPT !.pc = pc, !.settled = Len(r.calls),
            !.amount = Undefined, !.balance = Undefined, !.toAmount = Undefined]

\* setTokenPriceToMap after its await
setTokenPriceToMapWithPrices(s, addr, reply) ==
  LET price == OrZero(reply)
      s1 == [s EXCEPT !.tokensPriceMap[addr] = price]
  IN  IF addr = CURRENT_CHAIN_ADDRESS THEN [s1 EXCEPT !.networkPrice = price] ELSE s1

\* getAddressPrice after its await: the state, and the price returned
getAddressPriceWithPrices(s, addr, reply) ==
  LET price == OrZero(reply)
  IN  [state |-> [s EXCEPT !.tokensPriceMap[addr] = price],
       result |-> parseFloat(price)]

\* getNetworkTokenPrice after its await
getNetworkTokenPriceWithPrices(s, reply) ==
  LET price == OrZero(reply)
  IN  [s EXCEPT !.tokensPriceMap[CURRENT_CHAIN_ADDRESS] = price,
                !.networkPrice = price]

\* getMyTokensWithBalance after its await
getMyTokensWithBalanceWithRes(s, res) ==
  IF ~res.defined THEN s
  ELSE [s EXCEPT !.tokensPriceMap = [a \in Addresses |-> res.tokens[a].price],
                 !.myTokensWithBalance = [a \in Addresses |-> res.tokens[a].balance]]

\* getTokenPriceWithAddresses([address]) replies to a fire-and-forget
\* setTokenPriceToMap, to checkToTokenValues or to checkSourceTokenValues
PriceReply(i, reply) ==
  /\ i \in RunIds
  /\ runs[i].pc = "getTokenPriceWithAddresses"
  /\ LET r == runs[i]
     IN  /\ state' =
              CASE r.op = "setTokenPriceToMap" ->
                     setTokenPriceToMapWithPrices(state, r.addr, reply)
                [] r.op = "checkToTokenValues" ->
                     LET s1 == setTokenPriceToMapWithPrices(state, r.addr, reply)
                     IN  [s1 EXCEPT !.toTokenPriceInUSD =
                                       parseFloat(s1.tokensPriceMap[r.addr])]
                [] r.op = "checkSourceTokenValues" ->
                     LET g == getAddressPriceWithPrices(state, r.addr, reply)
                     IN  checkSourceTokenValuesWithPrice(g.state, r.balance,
                                                         r.amount, g.result)
         /\ runs' = [runs EXCEPT ![i] = [End(r, "done") EXCEPT !.noPrice = ~Truthy(reply)]]
  /\ UNCHANGED <<address, snack, view>>

\* the calls whose rejection nothing catches
Uncaught ==
  { "getTokenPriceWithAddresses", "getTokenList", "getNetworkTokenPrice",
    "getMyTokensWithBalance", "checkConvertAllowance", "createConvert.getEstimatedGas",
    "getConvertData", "getConvertApprovalData", "createTokenAllowance.getEstimatedGas" }

\* the awaited call rejects: the run's promise rejects, nothing else happens
Reject(i) ==
  /\ i \in RunIds
  /\ runs[i].pc \in Uncaught
  /\ runs' = [runs EXCEPT ![i] = End(runs[i], "rejected")]
  /\ UNCHANGED <<state, address, snack, view>>

\* initializeState that does not wait for the balances before it sets
\* state.initialized
initializeStateNextEarly(fetch) ==
  CASE fetch = "getTokenList" -> "getNetworkTokenPrice"
    [] fetch = "getNetworkTokenPrice" -> "done"
    [] fetch = "getMyTokensWithBalance" -> "done"

\* the fetch initializeState awaits after `fetch`
initializeStateNext(fetch) ==
  CASE fetch = "getTokenList" -> "getNetworkTokenPrice"
    [] fetch = "getNetworkTokenPrice" -> "getMyTokensWithBalance"
    [] fetch = "getMyTokensWithBalance" -> "done"

InitializeState ==
  /\ IF state.initialized THEN UNCHANGED runs
     ELSE /\ Fits(World(state, Append(runs, NewRun("initializeState", "getTokenList"))))
          /\ runs' = Append(runs, NewRun("initializeState", "getTokenList"))
  /\ UNCHANGED <<state, address, snack, view>>

\* one fetch of initializeState settles with `s` as the state it leaves
InitializeStateStep(i, s, noPrice) ==
  LET next == initializeStateNext(runs[i].pc)
      r == [runs[i] EXCEPT !.noPrice = noPrice]
  IN  /\ runs' = [runs EXCEPT ![i] = IF next = "done" THEN End(r, "done")
                                       ELSE Await(r, next)]
      /\ state' = IF next = "done" THEN [s EXCEPT !.initialized = TRUE] ELSE s
      /\ UNCHANGED <<address, snack, view>>

\* getNetworkTokenPrice called by the view
GetNetworkTokenPrice ==
  /\ Commit(World(state, Append(runs, NewRun("getNetworkTokenPrice",
                                             "getNetworkTokenPrice"))))
  /\ UNCHANGED <<address, snack, view>>

TokenListReply(i) ==
  /\ i \in RunIds
  /\ runs[i].op = "initializeState" /\ runs[i].pc = "getTokenList"
  /\ InitializeStateStep(i, [state EXCEPT !.tokens = "tokenList"], FALSE)

NetworkTokenPriceReply(i, reply) ==
  /\ i \in RunIds
  /\ runs[i].pc = "getNetworkTokenPrice"
  /\ IF runs[i].op = "initializeState"
     THEN InitializeStateStep(i, getNetworkTokenPriceWithPrices(state, reply),
                              ~Truthy(reply))
     ELSE /\ state' = getNetworkTokenPriceWithPrices(state, reply)
          /\ runs' = [runs EXCEPT ![i] = [End(runs[i], "done")
                                            EXCEPT !.noPrice = ~Truthy(reply)]]
          /\ UNCHANGED <<address, snack, view>>

MyTokensWithBalanceReply(i, res) ==
  /\ i \in RunIds
  /\ runs[i].op = "initializeState" /\ runs[i].pc = "getMyTokensWithBalance"
  /\ InitializeStateStep(i, getMyTokensWithBalanceWithRes(state, res), runs[i].noPrice)

(***************************************************************************)
(* convertTokens / makeChecks.                                             *)
(***************************************************************************)
\* the guard without its `parseFloat(sourceTokenAmount) === 0` test
makeChecksGuardNoZero(s) ==
  \/ s.sourceToken.address = UNDEFINED
  \/ ~Truthy(s.sourceTokenAmount)
  \/ s.sourceToken.decimals = 0
  \/ s.toToken.decimals = 0
  \/ s.toToken.address = UNDEFINED

\* the guard of makeChecks on the values getParams reads
makeChecksGuard(s) ==
  \/ s.sourceToken.address = UNDEFINED
  \/ ~Truthy(s.sourceTokenAmount)
  \/ IsZero(parseFloat(s.sourceTokenAmount))
  \/ s.sourceToken.decimals = 0
  \/ s.toToken.decimals = 0
  \/ s.toToken.address = UNDEFINED

\* makeChecks up to `await checkConvertAllowance`, called as `op`
makeChecks(w, op) ==
  IF makeChecksGuard(w.state) THEN w
  ELSE World([w.state EXCEPT !.loading = TRUE],
             Append(w.runs,
                    [NewRun(op, "checkConvertAllowance")
                       EXCEPT !.addr = w.state.toToken.address,
                              !.amount = w.state.sourceTokenAmount,
                              !.after = {i \in 1..Len(w.runs) :
                                           /\ w.runs[i].op \in CheckOps
                                           /\ ~Finished(w.runs[i])}]))

convertTokens(w) ==
  IF w.state.sourceToken.address = UNDEFINED \/ w.state.toToken.address = UNDEFINED
  THEN w
  ELSE makeChecks(World([w.state EXCEPT !.convertLoading = TRUE], w.runs),
                  "convertTokens")

\* getParams throws when there is no account address: nothing is written
ConvertTokens ==
  /\ IF address = UNDEFINED THEN UNCHANGED <<state, runs>>
     ELSE Commit(convertTokens(Here))
  /\ UNCHANGED <<address, snack, view>>

MakeChecks ==
  /\ IF address = UNDEFINED THEN UNCHANGED <<state, runs>>
     ELSE Commit(makeChecks(Here, "makeChecks"))
  /\ UNCHANGED <<address, snack, view>>

\* createConvert throws on the values getParams reads now
createConvertGuard(s) ==
  \/ ~Truthy(s.sourceTokenAmount)
  \/ s.sourceToken.address = UNDEFINED
  \/ s.toToken.address = UNDEFINED
  \/ s.sourceToken.decimals = 0

\* makeChecks from the reply of checkConvertAllowance to the next await,
\* inside createConvert or createTokenAllowance
makeChecksWithAllowance(s, r, hasAllowance) ==
  LET r1 == [r EXCEPT !.hasAllowance = hasAllowance, !.toAmount = getToAmount(s)]
  IN  IF hasAllowance
      THEN LET s1 == [s EXCEPT !.approvalTransaction = undefinedTx]
           IN  IF createConvertGuard(s1)
               THEN [state |-> s1, run |-> End(r1, "rejected")]
               ELSE [state |-> s1, run |-> Await(r1, "createConvert.getEstimatedGas")]
      ELSE IF s.sourceToken.address = UNDEFINED
           THEN [state |-> s, run |-> End(r1, "rejected")]
           ELSE [state |-> [s EXCEPT !.loading = TRUE],
                 run |-> Await(r1, "getConvertApprovalData")]

AllowanceReply(i, hasAllowance) ==
  /\ i \in RunIds
  /\ runs[i].pc = "checkConvertAllowance"
  /\ LET n == makeChecksWithAllowance(state, runs[i], hasAllowance)
     IN  state' = n.state /\ runs' = [runs EXCEPT ![i] = n.run]
  /\ UNCHANGED <<address, snack, view>>

\* createConvert between its two awaits
ConvertGasReply(i, gasLimit) ==
  /\ i \in RunIds
  /\ runs[i].pc = "createConvert.getEstimatedGas"
  /\ state' = [state EXCEPT !.gasPriceInUSD =
                              calculateGasPriceInUSD(state, gasLimit, state.gasFee)]
  /\ runs' = [runs EXCEPT ![i] = Await(runs[i], "getConvertData")]
  /\ UNCHANGED <<address, snack, view>>

\* makeChecks after `await this.createConvert()`
makeChecksWithConvert(s, r, transaction) ==
  LET s1 == [s EXCEPT !.convertTransaction = transaction]
      s2 == setToTokenAmountValue(s1, r.toAmount, r.addr)
      s3 == setTransactionDetails(s2, transaction.gas, transaction.gasPrice)
  IN  [s3 EXCEPT !.loading = FALSE]

ConvertDataReply(i, gas, gasPrice) ==
  /\ i \in RunIds
  /\ runs[i].pc = "getConvertData"
  /\ LET transaction == TransactionParams("convert", i, gas, gasPrice)
     IN  /\ state' = makeChecksWithConvert(state, runs[i], transaction)
         /\ runs' = [runs EXCEPT ![i] = [End(runs[i], "done")
                                           EXCEPT !.tx = transaction,
                                                  !.written = Shared(state')]]
  /\ UNCHANGED <<address, snack, view>>

\* createTokenAllowance between its two awaits
ApprovalDataReply(i, gasPrice) ==
  /\ i \in RunIds
  /\ runs[i].pc = "getConvertApprovalData"
  /\ runs' = [runs EXCEPT ![i] =
                [Await(runs[i], "createTokenAllowance.getEstimatedGas")
                   EXCEPT !.tx = TransactionParams("approval", i, 0, gasPrice)]]
  /\ UNCHANGED <<state, address, snack, view>>

\* makeChecks after `await this.createTokenAllowance()`
makeChecksWithApproval(s, r, transaction) ==
  LET s1 == [s EXCEPT !.approvalTransaction = transaction]
      s2 == setToTokenAmountValue(s1, r.toAmount, r.addr)
      s3 == setTransactionDetails(s2, transaction.gas, transaction.gasPrice)
  IN  [s3 EXCEPT !.loading = FALSE]

ApprovalGasReply(i, gasLimit) ==
  /\ i \in RunIds
  /\ runs[i].pc = "createTokenAllowance.getEstimatedGas"
  /\ LET transaction == [runs[i].tx EXCEPT !.gas = gasLimit]
     IN  /\ state' = makeChecksWithApproval(state, runs[i], transaction)
         /\ runs' = [runs EXCEPT ![i] = [End(runs[i], "done")
                                           EXCEPT !.tx = transaction,
                                                  !.written = Shared(state')]]
  /\ UNCHANGED <<address, snack, view>>

(***************************************************************************)
(* Transaction submission.                                                 *)
(***************************************************************************)
\* sendTransactionFor... up to `await ConnectionController.sendTransaction`
sendTransaction(w, op, data) ==
  World([w.state EXCEPT !.transactionLoading = TRUE],
        Append(w.runs, [NewRun(op, "sendTransaction") EXCEPT !.tx = data]))

SendTransactionForApproval(data) ==
  /\ data # undefinedTx
  /\ IF address = UNDEFINED THEN UNCHANGED <<state, runs>>
     ELSE Commit(sendTransaction(Here, "sendTransactionForApproval", data))
  /\ UNCHANGED <<address, snack, view>>

SendTransactionForConvert(data) ==
  /\ IF data = undefinedTx \/ address = UNDEFINED THEN UNCHANGED <<state, runs>>
     ELSE Commit(sendTransaction(Here, "sendTransactionForConvert", data))
  /\ UNCHANGED <<address, snack, view>>

\* the value the catch block stores in state.transactionError
transactionErrorOf(shortMessage) == shortMessage

\* the message the catch block passes to SnackController.showError
showErrorMessage(op, shortMessage) ==
  IF shortMessage # UNDEFINED THEN shortMessage
  ELSE IF op = "sendTransactionForApproval" THEN "Transaction errror"
       ELSE "Transaction error"

\* sendTransaction resolves: the approval is cleared; the convert navigates
\* and leaves a one second timer that will call resetState
SendTransactionResolves(i) ==
  /\ i \in RunIds
  /\ runs[i].pc = "sendTransaction"
  /\ IF runs[i].op = "sendTransactionForApproval"
     THEN /\ state' = [state EXCEPT !.approvalTransaction = undefinedTx,
                                    !.transactionLoading = FALSE]
          /\ runs' = [runs EXCEPT ![i] = [End(runs[i], "done") EXCEPT !.outcome = "hash"]]
          /\ view' = view
     ELSE /\ state' = [state EXCEPT !.transactionLoading = FALSE]
          /\ runs' = [runs EXCEPT ![i] = [Await(runs[i], "setTimeout")
                                            EXCEPT !.outcome = "hash"]]
          /\ view' = "Transactions"
  /\ UNCHANGED <<address, snack>>

\* a catch block that navigates and leaves the reset timer like the success
\* path
SendTransactionRejectsNavigating(i, shortMessage) ==
  /\ i \in RunIds
  /\ runs[i].pc = "sendTransaction"
  /\ state' = [state EXCEPT !.transactionError = transactionErrorOf(shortMessage),
                            !.transactionLoading = FALSE]
  /\ snack' = Append(snack, showErrorMessage(runs[i].op, shortMessage))
  /\ runs' = [runs EXCEPT ![i] = [Await(runs[i], "setTimeout")
                                    EXCEPT !.outcome = "caught"]]
  /\ view' = "Transactions"
  /\ UNCHANGED address

\* a catch block that also drops the approval transaction
SendTransactionRejectsClearing(i, shortMessage) ==
  /\ i \in RunIds
  /\ runs[i].pc = "sendTransaction"
  /\ state' = [state EXCEPT !.transactionError = transactionErrorOf(shortMessage),
                            !.transactionLoading = FALSE,
                            !.approvalTransaction = undefinedTx]
  /\ snack' = Append(snack, showErrorMessage(runs[i].op, shortMessage))
  /\ runs' = [runs EXCEPT ![i] = [End(runs[i], "done") EXCEPT !.outcome = "caught"]]
  /\ UNCHANGED <<address, view>>

\* sendTransaction rejects: the catch block
SendTransactionRejects(i, shortMessage) ==
  /\ i \in RunIds
  /\ runs[i].pc = "sendTransaction"
  /\ state' = [state EXCEPT !.transactionError = transactionErrorOf(shortMessage),
                            !.transactionLoading = FALSE]
  /\ snack' = Append(snack, showErrorMessage(runs[i].op, shortMessage))
  /\ runs' = [runs EXCEPT ![i] = [End(runs[i], "done") EXCEPT !.outcome = "caught"]]
  /\ UNCHANGED <<address, view>>

\* the timer of sendTransactionForConvert fires
ResetTimer(i) ==
  /\ i \in RunIds
  /\ runs[i].pc = "setTimeout"
  /\ state' = resetState(state)
  /\ runs' = [runs EXCEPT ![i] = End(runs[i], "done")]
  /\ UNCHANGED <<address, snack, view>>

(***************************************************************************)
(* The specification.                                                      *)
(***************************************************************************)
\* the transactions a caller hands to sendTransactionFor...
ApprovalData == {state.approvalTransaction, callerTx} \ {undefinedTx}

ConvertData == {state.convertTransaction}

Next ==
  \/ \E t \in TokenInputs : SetSourceToken(t)
  \/ \E t \in TokenInputs : SetToToken(t)
  \/ \E a \in AmountInputs : SetSourceTokenAmount(a)
  \/ \E a \in AmountInputs \ {Empty} : SetToTokenAmount(a)
  \/ SwitchTokens
  \/ ResetState
  \/ ClearError
  \/ \E a \in ToAmountInputs, t \in Addresses : SetToTokenAmountValue(a, t)
  \/ \E g \in GasReplies, gp \in GasPriceReplies : SetTransactionDetails(g, gp)
  \/ InitializeState
  \/ GetNetworkTokenPrice
  \/ ConvertTokens
  \/ MakeChecks
  \/ \E d \in ApprovalData : SendTransactionForApproval(d)
  \/ \E d \in ConvertData : SendTransactionForConvert(d)
  \/ \E i \in RunIds, p \in PriceReplies : PriceReply(i, p)
  \/ \E i \in RunIds : TokenListReply(i)
  \/ \E i \in RunIds, p \in PriceReplies : NetworkTokenPriceReply(i, p)
  \/ \E i \in RunIds, res \in BalanceReplies : MyTokensWithBalanceReply(i, res)
  \/ \E i \in RunIds, b \in BOOLEAN : AllowanceReply(i, b)
  \/ \E i \in RunIds, g \in GasReplies : ConvertGasReply(i, g)
  \/ \E i \in RunIds, g \in GasReplies, gp \in GasPriceReplies : ConvertDataReply(i, g, gp)
  \/ \E i \in RunIds, gp \in GasPriceReplies : ApprovalDataReply(i, gp)
  \/ \E i \in RunIds, g \in GasReplies : ApprovalGasReply(i, g)
  \/ \E i \in RunIds : SendTransactionResolves(i)
  \/ \E i \in RunIds, m \in ShortMessages : SendTransactionRejects(i, m)
  \/ \E i \in RunIds : ResetTimer(i)
  \/ \E i \in RunIds : Reject(i)

Spec == Init /\ [][Next]_vars

(***************************************************************************)
(* The same program with a connected account and the calls of one feature  *)
(* only: every behaviour of these is a behaviour of Spec.                  *)
(***************************************************************************)
InitConnected ==
  /\ state = InitialState
  /\ address = "0xd8da6bf26964af9d7eed9e03e53415d37aa96045"
  /\ runs = <<>>
  /\ snack = <<>>
  /\ view = "Convert"

\* the input fields: tokens, amounts, reset
NextInputs ==
  \/ \E t \in TokenInputs : SetSourceToken(t)
  \/ \E t \in TokenInputs : SetToToken(t)
  \/ \E a \in AmountInputs : SetSourceTokenAmount(a)
  \/ \E a \in AmountInputs \ {Empty} : SetToTokenAmount(a)
  \/ SwitchTokens
  \/ ResetState
  \/ \E a \in ToAmountInputs, t \in Addresses : SetToTokenAmountValue(a, t)
  \/ \E i \in RunIds, p \in PriceReplies : PriceReply(i, p)

SpecInputs == InitConnected /\ [][NextInputs]_vars

\* the price lookups and the readers of tokensPriceMap; the user converts
\* into USDC
NextPrices ==
  \/ \E t \in TokenInputs : SetSourceToken(t)
  \/ SetToToken(USDC)
  \/ SetSourceTokenAmount(Str(Num(1)))
  \/ GetNetworkTokenPrice
  \/ \E i \in RunIds, p \in PriceReplies : PriceReply(i, p)
  \/ \E i \in RunIds, p \in PriceReplies : NetworkTokenPriceReply(i, p)
  \/ \E a \in ToAmountInputs : SetToTokenAmountValue(a, state.toToken.address)
  \/ \E g \in GasReplies, gp \in GasPriceReplies : SetTransactionDetails(g, gp)

SpecPrices == InitConnected /\ [][NextPrices]_vars

\* convertTokens / makeChecks; the user converts USDC into ETH
NextChecks ==
  \/ SetSourceToken(USDC)
  \/ SetToToken(ETH)
  \/ \E a \in AmountInputs \ {Empty} : SetSourceTokenAmount(a)
  \/ ConvertTokens
  \/ MakeChecks
  \/ \E i \in RunIds, p \in PriceReplies : PriceReply(i, p)
  \/ \E i \in RunIds, b \in BOOLEAN : AllowanceReply(i, b)
  \/ \E i \in RunIds, g \in GasReplies : ConvertGasReply(i, g)
  \/ \E i \in RunIds, g \in GasReplies, gp \in GasPriceReplies : ConvertDataReply(i, g, gp)
  \/ \E i \in RunIds, gp \in GasPriceReplies : ApprovalDataReply(i, gp)
  \/ \E i \in RunIds, g \in GasReplies : ApprovalGasReply(i, g)
  \/ \E i \in RunIds : Reject(i)

SpecChecks == InitConnected /\ [][NextChecks]_vars

\* transaction submission
NextSend ==
  \/ \E d \in ApprovalData : SendTransactionForApproval(d)
  \/ \E d \in ConvertData \cup {callerTx} : SendTransactionForConvert(d)
  \/ \E i \in RunIds : SendTransactionResolves(i)
  \/ \E i \in RunIds, m \in ShortMessages : SendTransactionRejects(i, m)
  \/ \E i \in RunIds : ResetTimer(i)
  \/ ClearError

SpecSend == InitConnected /\ [][NextSend]_vars

\* the same, with the event loop running every timer that setTimeout left
SpecSendFair ==
  SpecSend /\ \A i \in 1..MaxSendRuns : WF_vars(ResetTimer(i))

\* initializeState
NextInit ==
  \/ InitializeState
  \/ \E i \in RunIds : TokenListReply(i)
  \/ \E i \in RunIds, p \in PriceReplies : NetworkTokenPriceReply(i, p)
  \/ \E i \in RunIds, res \in BalanceReplies : MyTokensWithBalanceReply(i, res)
  \/ \E i \in RunIds : Reject(i)

SpecInit == InitConnected /\ [][NextInit]_vars

\* the approval: makeChecks without allowance builds the approval
\* transaction, the view submits it; the user fills each input once, asks
\* for the checks when nothing else is in flight, and the price lookups stay
\* unanswered
NextApproval ==
  \/ state.sourceToken = undefinedToken /\ SetSourceToken(USDC)
  \/ state.toToken = undefinedToken /\ SetToToken(ETH)
  \/ state.sourceTokenAmount = Empty /\ SetSourceTokenAmount(Str(Num(1)))
  \/ (\A i \in RunIds : runs[i].op \in CheckOps => Finished(runs[i])) /\ MakeChecks
  \/ \E i \in RunIds : AllowanceReply(i, FALSE)
  \/ \E i \in RunIds, gp \in GasPriceReplies : ApprovalDataReply(i, gp)
  \/ \E i \in RunIds, g \in GasReplies : ApprovalGasReply(i, g)
  \/ \E d \in ApprovalData \ {callerTx} : SendTransactionForApproval(d)
  \/ \E i \in RunIds : SendTransactionResolves(i)
  \/ \E i \in RunIds, m \in ShortMessages : SendTransactionRejects(i, m)

SpecApproval == InitConnected /\ [][NextApproval]_vars

\* convertTokens / makeChecks on inputs in every stage of completion, a
\* source token without decimals among them (an input Next does not draw);
\* the checks that start stay unanswered
NextGuards ==
  \/ \E t \in {USDC, USDCNoDecimals} : SetSourceToken(t)
  \/ SetToToken(ETH)
  \/ \E a \in AmountInputs : SetSourceTokenAmount(a)
  \/ \E i \in RunIds : PriceReply(i, Str(Num(2)))
  \/ ConvertTokens
  \/ MakeChecks

SpecGuards == InitConnected /\ [][NextGuards]_vars

(***************************************************************************)
(* Transaction submission: C1, C8.                                         *)
(***************************************************************************)
\* run i's sendTransaction rejects in this step
SendRejected(i) == runs[i].pc = "sendTransaction" /\ runs'[i].outcome = "caught"

\* C1: whenever sendTransaction fails inside sendTransactionForApproval or
\* sendTransactionForConvert, the failure is caught, state.transactionError
\* holds a string (never undefined) and showError is called exactly once.
C1_ErrorStoredAsString ==
  [][\A i \in RunIds :
       SendRejected(i) =>
         /\ runs'[i].pc = "done"
         /\ state'.transactionError # UNDEFINED
         /\ Len(snack') = Len(snack) + 1]_vars

\* a submission is pending
SendPending == \E i \in RunIds : runs[i].pc = "sendTransaction"

\* C8: state.transactionLoading is true exactly while a transaction
\* submission is pending, and false after either action has finished.
C8_LoadingExactlyWhilePending == state.transactionLoading <=> SendPending

(***************************************************************************)
(* convertTokens / makeChecks: C2, C7, C9, C10.                            *)
(***************************************************************************)
\* run i is a makeChecks that passed its guard and has now run to completion
Completed(r) == r.op \in CheckOps /\ r.pc = "done"

\* C2: when two runs that write the same fields were in flight at once, then
\* once both have finished, the shared fields hold the values written by the
\* one that was started later, whatever the order of the network replies.
C2_LaterStartedWins ==
  [][\A i, j \in RunIds :
       ( /\ i \in runs[j].after
         /\ ~(Completed(runs[i]) /\ Completed(runs[j]))
         /\ Completed(runs'[i]) /\ Completed(runs'[j]) )
       => Shared(state') = runs'[j].written]_vars

\* C7: once convertTokens / makeChecks has finished, the loading flag it set
\* is false again, whether its network calls succeeded or failed.
C7_LoadingFlagsReset ==
  (\A i \in RunIds : runs[i].op \in CheckOps => Finished(runs[i]))
    => (~state.convertLoading /\ ~state.loading)

\* run i runs to completion in this step
Completes(i) == ~Finished(runs[i]) /\ Completed(runs'[i])

\* C9: when makeChecks has run to completion: with an allowance,
\* approvalTransaction is undefined and convertTransaction is the transaction
\* createConvert returned; without, approvalTransaction is the transaction
\* createTokenAllowance returned and createConvert was never called.
C9_BranchOutcome ==
  [][\A i \in RunIds :
       Completes(i) =>
         IF runs'[i].hasAllowance
         THEN /\ state'.approvalTransaction = undefinedTx
              /\ state'.convertTransaction = runs'[i].tx
         ELSE /\ state'.approvalTransaction = runs'[i].tx
              /\ \A k \in 1..Len(runs'[i].calls) :
                   runs'[i].calls[k] \notin {"createConvert.getEstimatedGas",
                                              "getConvertData"}]_vars

\* C10: approvalTransaction and convertTransaction are never both defined.
C10_NeverBothTransactions ==
  ~(state.approvalTransaction # undefinedTx /\ state.convertTransaction # undefinedTx)

(***************************************************************************)
(* The input fields: C3, C6.                                               *)
(***************************************************************************)
\* toTokenAmount is never the text of NaN or of an infinity (part of C3)
C3_NoNaNAmount == state.toTokenAmount.k = "text" => IsFinite(state.toTokenAmount.v)

\* C3: in every reachable state, the initial one included, sourceTokenAmount
\* and toTokenAmount are numeric strings: not '', not 'NaN', not 'Infinity'.
C3_AmountsNumeric ==
  IsNumericString(state.sourceTokenAmount) /\ IsNumericString(state.toTokenAmount)

\* the fields resetState writes
ResetFields(s) ==
  <<s.sourceToken, s.toToken, s.sourceTokenAmount, s.toTokenAmount,
    s.sourceTokenPriceInUSD, s.toTokenPriceInUSD, s.gasPriceInUSD>>

\* C6: after resetState every field it writes has its value of the initial
\* state record.
C6_ResetToDefaults ==
  [][state' = resetState(state) => ResetFields(state') = ResetFields(InitialState)]_vars

(***************************************************************************)
(* Prices: C4.                                                             *)
(***************************************************************************)
Zero == Num(0)

\* the address a price lookup asks the service about
LookedUp(r) ==
  IF r.op \in {"getNetworkTokenPrice", "initializeState"} THEN CURRENT_CHAIN_ADDRESS
  ELSE r.addr

\* run i's price lookup is answered without a price in this step
NoPriceReply(i) ==
  /\ runs[i].pc \in {"getTokenPriceWithAddresses", "getNetworkTokenPrice"}
  /\ runs'[i].pc # runs[i].pc
  /\ runs'[i].pc # "rejected"
  /\ runs'[i].noPrice

\* the to-token has no entry in tokensPriceMap
ToPriceAbsent == state.toToken.address # UNDEFINED
                 /\ ~Truthy(state.tokensPriceMap[state.toToken.address])

\* C4: when the price service returns no price for an address looked up by
\* getAddressPrice, setTokenPriceToMap or getNetworkTokenPrice, the entry
\* stored for it is '0' and the fields derived from the returned value
\* (sourceTokenPriceInUSD, toTokenPriceInUSD, networkPrice) are zero; and
\* setToTokenAmountValue and setTransactionDetails read the price of an
\* address absent from tokensPriceMap as zero.
C4_PricesDefaultToZero ==
  [][ /\ \A i \in RunIds :
           NoPriceReply(i) =>
             /\ state'.tokensPriceMap[LookedUp(runs[i])] = Str(Zero)
             /\ runs[i].op = "checkSourceTokenValues"
                  => state'.sourceTokenPriceInUSD = Zero
             /\ runs[i].op = "checkToTokenValues"
                  => state'.toTokenPriceInUSD = Zero
             /\ LookedUp(runs[i]) = CURRENT_CHAIN_ADDRESS
                  /\ runs[i].op # "checkSourceTokenValues"
                  => /\ state'.networkPrice = Str(Zero)
                     /\ parseFloat(state'.networkPrice) = Zero
      /\ \A a \in ToAmountInputs :
           ToPriceAbsent /\ SetToTokenAmountValue(a, state.toToken.address)
             => state'.toTokenPriceInUSD = Zero
      /\ \A g \in GasReplies, gp \in GasPriceReplies :
           ToPriceAbsent /\ SetTransactionDetails(g, gp)
             => state'.toTokenPriceInUSD = Zero ]_vars

\* getNetworkTokenPrice was answered without a price and '0' is stored for
\* the chain's address, and setTransactionDetails has read the to-token's
\* price while tokensPriceMap had no entry for it
C4_Witness ==
  /\ \E i \in RunIds :
       /\ runs[i].op = "getNetworkTokenPrice"
       /\ runs[i].pc = "done" /\ runs[i].noPrice
       /\ state.tokensPriceMap[CURRENT_CHAIN_ADDRESS] = Str(Zero)
       /\ state.networkPrice = Str(Zero)
  /\ ToPriceAbsent
  /\ state.maxSlippage # undefinedNumber
  /\ state.toTokenPriceInUSD = Zero

(***************************************************************************)
(* initializeState: C5.                                                    *)
(***************************************************************************)
initializeStateFetches ==
  <<"getTokenList", "getNetworkTokenPrice", "getMyTokensWithBalance">>

IsPrefix(s, q) == Len(s) <= Len(q) /\ \A k \in 1..Len(s) : s[k] = q[k]

InitRuns == {i \in RunIds : runs[i].op = "initializeState"}

\* C5: initializeState issues getTokenList, getNetworkTokenPrice and
\* getMyTokensWithBalance in this order, each one only after the one before
\* has settled; state.initialized is true only after all three have
\* completed, and a run one of whose fetches failed never sets it.
C5_InitializeSequential ==
  /\ \A i \in InitRuns :
       /\ IsPrefix(runs[i].calls, initializeStateFetches)
       /\ runs[i].settled = IF Finished(runs[i]) THEN Len(runs[i].calls)
                            ELSE Len(runs[i].calls) - 1
       /\ runs[i].pc = "done" => runs[i].calls = initializeStateFetches
  /\ state.initialized
       => \E i \in InitRuns : runs[i].pc = "done"
  /\ (\A i \in InitRuns : runs[i].pc # "done") => ~state.initialized

\* one initializeState failed and another ran all three fetches
C5_Witness ==
  /\ state.initialized
  /\ \E i \in InitRuns : runs[i].pc = "done" /\ runs[i].calls = initializeStateFetches
  /\ \E i \in InitRuns : runs[i].pc = "rejected"

(***************************************************************************)
(* sendTransactionForApproval: C11.                                        *)
(***************************************************************************)
\* run i is a sendTransactionForApproval whose submission settles in this
\* step
ApprovalSettles(i) ==
  /\ runs[i].op = "sendTransactionForApproval"
  /\ runs[i].pc = "sendTransaction"
  /\ runs'[i].pc = "done"

\* sendTransactionForApproval is called in this step and reaches the
\* submission
ApprovalCalled ==
  /\ Len(runs') = Len(runs) + 1
  /\ runs'[Len(runs')].op = "sendTransactionForApproval"

\* C11: sendTransactionForApproval sets state.approvalTransaction to
\* undefined if and only if sendTransaction succeeded: the call itself writes
\* transactionLoading only, a success writes approvalTransaction (undefined)
\* and transactionLoading only, and a failure writes transactionError and
\* transactionLoading only, so approvalTransaction, convertTransaction, the
\* tokens and the amounts are as they were.
C11_ApprovalClearedOnlyOnSuccess ==
  [][ /\ ApprovalCalled => state' = [state EXCEPT !.transactionLoading = TRUE]
      /\ \A i \in RunIds :
           ApprovalSettles(i) =>
             IF runs'[i].outcome = "hash"
             THEN /\ state'.approvalTransaction = undefinedTx
                  /\ state' = [state EXCEPT !.approvalTransaction = undefinedTx,
                                            !.transactionLoading = FALSE]
             ELSE /\ state'.approvalTransaction = state.approvalTransaction
                  /\ state'.convertTransaction = state.convertTransaction
                  /\ state'.sourceToken = state.sourceToken
                  /\ state'.toToken = state.toToken
                  /\ state'.sourceTokenAmount = state.sourceTokenAmount
                  /\ state'.toTokenAmount = state.toTokenAmount
                  /\ state' = [state EXCEPT
                                 !.transactionError = state'.transactionError,
                                 !.transactionLoading = FALSE] ]_vars

\* the approval transaction built by makeChecks was submitted twice: the
\* submission that failed has left it in place, the one that succeeded has
\* cleared it
C11_Witness ==
  /\ state.approvalTransaction = undefinedTx
  /\ \E i, j \in RunIds :
       /\ i < j
       /\ runs[i].op = "sendTransactionForApproval"
       /\ runs[j].op = "sendTransactionForApproval"
       /\ runs[i].outcome = "caught" /\ runs[j].outcome = "hash"
       /\ runs[i].tx.kind = "approval" /\ runs[j].tx = runs[i].tx

(***************************************************************************)
(* sendTransactionForConvert: C12.                                         *)
(***************************************************************************)
ConvertRuns == {i \in RunIds : runs[i].op = "sendTransactionForConvert"}

\* what holds of the submissions in every state: none was made with
\* undefined data, a timer is left by a successful submission only, and the
\* router was told to show the transactions only if one succeeded
ConvertSubmissions ==
  /\ \A i \in ConvertRuns :
       /\ runs[i].tx # undefinedTx
       /\ runs[i].pc = "setTimeout" => runs[i].outcome = "hash"
       /\ runs[i].outcome = "caught" => ~("setTimeout" \in {runs[i].calls[k] :
                                                             k \in 1..Len(runs[i].calls)})
  /\ view = "Transactions" => \E i \in ConvertRuns : runs[i].outcome = "hash"

\* the steps of run i, a sendTransactionForConvert
ConvertStep(i) ==
  /\ runs[i].op = "sendTransactionForConvert"
  /\ runs[i].pc = "sendTransaction" /\ runs'[i].outcome = "hash"
       => /\ state' = [state EXCEPT !.transactionLoading = FALSE]
          /\ view' = "Transactions"
          /\ runs'[i].pc = "setTimeout"
  /\ runs[i].pc = "sendTransaction" /\ runs'[i].outcome = "caught"
       => /\ view' = view
          /\ runs'[i].pc = "done"
          /\ state' = [state EXCEPT !.transactionError = state'.transactionError,
                                    !.transactionLoading = FALSE]
  /\ runs[i].pc = "setTimeout" /\ runs'[i].pc # "setTimeout"
       => /\ state' = resetState(state)
          /\ view' = view

\* C12: sendTransactionForConvert with undefined data changes nothing and
\* submits nothing; a successful submission returns the hash, sets
\* transactionLoading to false, navigates to 'Transactions' and leaves a
\* timer, and resetState runs when that timer fires, which it eventually
\* does; a failed submission neither navigates nor leaves a timer.
C12_ConvertNavigatesOnSuccess ==
  /\ []ConvertSubmissions
  /\ [][\A i \in RunIds : runs[i].op = "sendTransactionForConvert" => ConvertStep(i)]_vars
  /\ \A i \in 1..MaxSendRuns :
       (i \in ConvertRuns /\ runs[i].pc = "setTimeout")
         ~> (i \in ConvertRuns /\ runs[i].pc = "done" /\ runs[i].outcome = "hash")

\* one submission failed and left the view alone, a later one succeeded,
\* navigated, and its timer has run resetState
C12_Witness ==
  /\ view = "Transactions"
  /\ state.sourceTokenAmount = Str(Num(0))
  /\ \E i, j \in ConvertRuns :
       /\ i < j
       /\ runs[i].outcome = "caught" /\ runs[i].pc = "done"
       /\ runs[j].outcome = "hash" /\ runs[j].pc = "done"

(***************************************************************************)
(* switchTokens: C13.                                                      *)
(***************************************************************************)
\* C13: after switchTokens, state.sourceToken is the previous toToken and
\* state.toToken is the previous sourceToken, also when one of them was
\* undefined, and both amounts are the empty string.
C13_SwitchExchangesTokens ==
  [][SwitchTokens =>
       /\ state'.sourceToken = state.toToken
       /\ state'.toToken = state.sourceToken
       /\ state'.sourceTokenAmount = Empty
       /\ state'.toTokenAmount = Empty]_vars

(***************************************************************************)
(* convertTokens / makeChecks on incomplete inputs: C14.                   *)
(***************************************************************************)
\* a token is not selected
TokenMissing(s) ==
  s.sourceToken.address = UNDEFINED \/ s.toToken.address = UNDEFINED

\* the source amount is empty or parses to zero, or a token's decimals are
\* missing or zero
InputsIncomplete(s) ==
  \/ ~Truthy(s.sourceTokenAmount)
  \/ IsZero(parseFloat(s.sourceTokenAmount))
  \/ s.sourceToken.decimals = 0
  \/ s.toToken.decimals = 0

\* the fields makeChecks writes
CheckFields(s) ==
  <<s.loading, s.approvalTransaction, s.convertTransaction, s.toTokenAmount,
    s.gasPriceInUSD, s.priceImpact, s.maxSlippage>>

\* a convertTokens / makeChecks reaches the network in this step
CheckStarted ==
  /\ Len(runs') = Len(runs) + 1
  /\ runs'[Len(runs')].op \in CheckOps

\* C14: convertTokens changes nothing when a token is not selected; makeChecks
\* (called directly or by convertTokens) starts no network call and leaves
\* loading, approvalTransaction, convertTransaction, toTokenAmount,
\* gasPriceInUSD, priceImpact and maxSlippage unchanged when the source
\* amount is empty or zero or a token's decimals are missing or zero.  Put
\* the other way round as well: a step that starts a check or sets
\* convertLoading had complete inputs.
C14_NoEffectOnIncompleteInput ==
  [][ /\ ConvertTokens /\ TokenMissing(state) => UNCHANGED <<state, runs>>
      /\ (ConvertTokens \/ MakeChecks) /\ InputsIncomplete(state)
           => /\ runs' = runs
              /\ CheckFields(state') = CheckFields(state)
      /\ CheckStarted => ~TokenMissing(state) /\ ~InputsIncomplete(state)
      /\ state'.convertLoading /\ ~state.convertLoading => ~TokenMissing(state)
    ]_vars

\* convertTokens has run with both tokens selected and the source token
\* without decimals: it set convertLoading, and its makeChecks started nothing
C14_Witness ==
  /\ state.convertLoading
  /\ ~TokenMissing(state)
  /\ state.sourceToken.decimals = 0
  /\ Truthy(state.sourceTokenAmount) /\ ~IsZero(parseFloat(state.sourceTokenAmount))
  /\ ~state.loading
  /\ Started(runs, CheckOps) = 0

(***************************************************************************)
(* setSourceTokenAmount: C15.                                              *)
(***************************************************************************)
\* setSourceTokenAmount throws on this state: getParams finds no account
\* address, or no source token is selected
SetSourceTokenAmountThrows ==
  address = UNDEFINED \/ state.sourceToken.address = UNDEFINED

\* C15: a setSourceTokenAmount that throws leaves the state as it was:
\* state.sourceTokenAmount keeps its previous value and no balance check is
\* started.
C15_SetSourceTokenAmountAtomic ==
  [][\A a \in AmountInputs :
       SetSourceTokenAmount(a) /\ SetSourceTokenAmountThrows
         => /\ state' = state
            /\ runs' = runs]_vars

====
